---- MODULE Spec2Model ----
(***************************************************************************)
(* VideoSync: the session director (createSession, validateSession), the   *)
(* streaming node (handleWebSocket, handleClientMessage, the pub/sub       *)
(* receiver goroutines, broadcastState, writePump, cleanupClient) and the  *)
(* shared Redis keyspace and topics they communicate through.              *)
(*                                                                         *)
(* Every goroutine of the Go program is a process of the model.  A step of *)
(* a process is one access to shared memory, to Redis or to a channel;     *)
(* purely local computation is folded into the step that precedes it.      *)
(***************************************************************************)
EXTENDS Integers, Sequences, FiniteSets, TLC

\* ---------------------------------------------------------------- bounds
MaxConns == 3          \* size of the connection table: connections ever accepted
MaxTs    == 2          \* client-authored timestamps are drawn from 0..MaxTs
MaxNow   == 1          \* director wall clock readings are drawn from 0..MaxNow
QueueCap == 2          \* capacity of a connection's send channel (256 in the code)
\* connections accepted and frames read from all sockets together, per specification
HConns  == 1
HFrames == 2
RConns  == 3
RFrames == 2
JConns  == 2
JFrames == 1
LFrames == 2
FConns  == 2
FFrames == 1
DConns  == 2
DFrames == 1
\* a minute of the program is Minute seconds of the director's clock, which
\* runs up to MaxClock, the second tick of the sweep
Minute   == 3
MaxClock == 2 * Minute
MaxCap   == 2          \* declared capacities are drawn from 0..MaxCap
MaxLoad  == 2          \* reported loads are drawn from 0..MaxLoad
EConns   == 1
EFrames  == 3
GConns   == 2
GFrames  == 2
MConns   == 2
MFrames  == 1
PConns   == 1
PFrames  == 3
MaxUpload == 2         \* MAX_UPLOAD_SIZE; request bodies have sizes 0..MaxUpload+1
Day      == 2          \* 24 hours, in the steps by which the keyspace's time passes
UConns   == 1
UFrames  == 1

\* sessionExpiry and REDIS_MSG_EXPIRY
sessionExpiry    == Day
REDIS_MSG_EXPIRY == Day
MAX_UPLOAD_SIZE  == MaxUpload

\* time.NewTicker(1 * time.Minute) and "now-server.LastPing > 60"
SweepPeriod == Minute
PingExpiry  == Minute

Nodes    == {"A", "B"}
Sessions == {"s1", "s2"}
Tokens   == {"t1", "t2"}
Conns    == 1..MaxConns

\* ---------------------------------------------------------------- values
\* RedisState / SessionState: the timestamp and one payload field.
PlaybackState(ts, ct) == [Timestamp |-> ts, CurrentTime |-> ct]

\* the value rdb.Get hands back together with redis.Nil: the empty string
redisNil == [Timestamp |-> -1, CurrentTime |-> -1]

NoToken == ""
NoMutex == <<"none", 0, "">>
NoConn  == [node |-> "", sessionID |-> "", isHost |-> FALSE]
NoSub   == [channel |-> "", buf |-> <<>>]
NoURL   == [scheme |-> "", host |-> "", slash |-> FALSE]
NoServer == [ID |-> "", URL |-> NoURL, Capacity |-> 0, CurrentLoad |-> 0,
             Status |-> "", LastPing |-> 0]
NoResp  == [status |-> 0, valid |-> FALSE, isHost |-> FALSE, error |-> "",
            server |-> "", streaming_url |-> NoURL]
NoTTL   == [session |-> 0, host |-> 0, state |-> 0]
NoErr   == [setex |-> FALSE, publish |-> FALSE]
NoG     == [pc |-> "none", cur |-> 0, channel |-> "", payload |-> redisNil,
            snap |-> <<>>, i |-> 0, j |-> 0]

VARIABLES
    \* ---- Redis
    kvSession,     \* set of k with key session:<k> present
    kvHost,        \* k -> value of session:<k>:host (NoToken when absent)
    kvState,       \* k -> value of session:<k>:state (redisNil when absent)
    subs,          \* c -> the *redis.PubSub created by connection c's connect
    \* ---- streaming node globals
    pubsub,        \* n -> the subscription the global pubsub points to (0: nil)
    clients,       \* n -> k -> slice of connections
    client_lock,   \* n -> k -> mutex stored in the map (NoMutex when absent)
    held,          \* mutexes that are locked
    numClients,    \* n -> load counter
    crashed,       \* n -> the process died of a panic or fatal error
    \* ---- one handleWebSocket goroutine per connection
    conn,          \* c -> ClientConnection{sessionID, isHost} and its node
    pc,            \* c -> position of the handler goroutine
    val,           \* c -> val of the initial-state read, until it is enqueued
    msg,           \* c -> msg.State of the last frame read from c's socket
    send,          \* c -> contents of the channel client.send
    sendState,     \* c -> "nil", "open" or "closed"
    \* ---- one receiver goroutine per subscribeToSessionUpdates call
    g,             \* c -> goroutine started by connection c's subscribe
    \* ---- the browser behind a connection
    cl,            \* c -> what validate answered to it
    \* ---- session director
    streamingServers, \* id -> registry entry (NoServer when the map has no such key)
    clock,         \* the director's wall clock, time.Now().Unix()
    nextSweep,     \* the instant of the next tick of cleanupInactiveServers' ticker
    req,           \* c -> the last validate request of the browser of c
    resp,          \* c -> the response to it
    createResp,    \* k -> status of the response of the create call that drew key k
    \* ---- upload server and object store
    uploadResp,    \* k -> status of the response to the last upload for session k
    objects,       \* k whose playlists and segments are in the object store
    \* ---- expiry of the keys
    ttl,           \* k -> time to live of the three keys of k (0 when absent)
    \* ---- one writePump goroutine per connection, and the socket
    pump,          \* c -> "none", "run", "stopped" (write error) or "done"
    sockWriters,   \* c -> the goroutines that have written to c's socket
    \* ---- handleWebSocket's read of the bucket
    seen,          \* c -> clients[sessionID] as it was when c's Lock returned
    \* ---- handleClientMessage's error values
    err,           \* c -> whether the last SetEX and the last Publish failed
    \* ---- history
    nFrames,       \* c -> frames read from c's socket so far
    sentMax,       \* k -> highest timestamp of a host stateUpdate frame so far
    accMax,        \* k -> highest timestamp ever written to the state key
    created,       \* k -> the state createSession wrote
    joinFloor,     \* c -> accMax of its session when c's upgrade was accepted
    readFloor,     \* c -> accMax of its session when c read the initial state
    initSent,      \* c -> the initial state enqueued to participant c
    firstEnq,      \* c -> the first stateUpdate enqueued on c's channel
    lastEnq,       \* c -> the last stateUpdate enqueued on c's channel
    overflow       \* some enqueue found a channel full

redisVars == <<kvSession, kvHost, kvState, subs>>
nodeVars  == <<pubsub, clients, client_lock, held, numClients, crashed>>
connVars  == <<conn, pc, val, msg, send, sendState>>
writeHist == <<sentMax, accMax, created>>
joinHist  == <<joinFloor, readFloor, initSent>>
enqHist   == <<firstEnq, lastEnq, overflow>>
histVars  == <<nFrames, writeHist, joinHist, enqHist>>
dirVars   == <<streamingServers, clock, nextSweep, req, resp, createResp>>
auxVars   == <<uploadResp, objects, ttl, pump, sockWriters, seen, err>>
vars      == <<redisVars, nodeVars, connVars, g, cl, dirVars, auxVars, histVars>>

Max(a, b) == IF a >= b THEN a ELSE b

\* ------------------------------------------------------------------ Init
Init ==
    /\ kvSession = {}
    /\ kvHost = [k \in Sessions |-> NoToken]
    /\ kvState = [k \in Sessions |-> redisNil]
    /\ subs = [c \in Conns |-> NoSub]
    /\ pubsub = [n \in Nodes |-> 0]
    /\ clients = [n \in Nodes |-> [k \in Sessions |-> <<>>]]
    /\ client_lock = [n \in Nodes |-> [k \in Sessions |-> NoMutex]]
    /\ held = {}
    /\ numClients = [n \in Nodes |-> 0]
    /\ crashed = [n \in Nodes |-> FALSE]
    /\ conn = [c \in Conns |-> NoConn]
    /\ pc = [c \in Conns |-> "none"]
    /\ val = [c \in Conns |-> redisNil]
    /\ msg = [c \in Conns |-> redisNil]
    /\ send = [c \in Conns |-> <<>>]
    /\ sendState = [c \in Conns |-> "nil"]
    /\ g = [c \in Conns |-> NoG]
    /\ cl = [c \in Conns |-> [sessionKey |-> "", isHost |-> FALSE]]
    /\ streamingServers = [id \in Nodes |-> NoServer]
    /\ clock = 0
    /\ nextSweep = SweepPeriod
    /\ req = [c \in Conns |-> [sessionKey |-> "", hostToken |-> NoToken]]
    /\ resp = [c \in Conns |-> NoResp]
    /\ createResp = [k \in Sessions |-> 0]
    /\ uploadResp = [k \in Sessions |-> 0]
    /\ objects = {}
    /\ ttl = [k \in Sessions |-> NoTTL]
    /\ pump = [c \in Conns |-> "none"]
    /\ sockWriters = [c \in Conns |-> {}]
    /\ seen = [c \in Conns |-> <<>>]
    /\ err = [c \in Conns |-> NoErr]
    /\ nFrames = [c \in Conns |-> 0]
    /\ sentMax = [k \in Sessions |-> -1]
    /\ accMax = [k \in Sessions |-> -1]
    /\ created = [k \in Sessions |-> redisNil]
    /\ joinFloor = [c \in Conns |-> -1]
    /\ readFloor = [c \in Conns |-> -1]
    /\ initSent = [c \in Conns |-> redisNil]
    /\ firstEnq = [c \in Conns |-> redisNil]
    /\ lastEnq = [c \in Conns |-> redisNil]
    /\ overflow = FALSE


NodeOf(c) == conn[c].node
SessOf(c) == conn[c].sessionID
Alive(c)  == ~crashed[NodeOf(c)]

\* ============================================================== director
\* createSession: uuid.New() gives a key and a token nobody holds yet.  The
\* three SetEX calls run in order; the first one that fails ends the request
\* with 500 and nothing is undone.  failAt is the failing write, 0 for none.
createSession(k, tok, now, failAt) ==
    /\ k \notin kvSession
    /\ kvHost[k] = NoToken /\ kvState[k] = redisNil
    /\ \A k2 \in Sessions : kvHost[k2] # tok
    /\ kvSession' = IF failAt = 1 THEN kvSession ELSE kvSession \cup {k}
    /\ kvHost' = IF failAt \in {1, 2} THEN kvHost ELSE [kvHost EXCEPT ![k] = tok]
    /\ IF failAt = 0
       THEN /\ kvState' = [kvState EXCEPT ![k] = PlaybackState(now, 0)]
            /\ created' = [created EXCEPT ![k] = PlaybackState(now, 0)]
            /\ accMax' = [accMax EXCEPT ![k] = now]
       ELSE UNCHANGED <<kvState, created, accMax>>
    /\ createResp' = [createResp EXCEPT ![k] = IF failAt = 0 THEN 200 ELSE 500]
    /\ ttl' = [ttl EXCEPT ![k] =
                 [session |-> IF failAt = 1 THEN @.session ELSE sessionExpiry,
                  host    |-> IF failAt \in {1, 2} THEN @.host ELSE sessionExpiry,
                  state   |-> IF failAt = 0 THEN sessionExpiry ELSE @.state]]
    /\ UNCHANGED <<err, uploadResp, objects, pump, sockWriters, seen, subs, nodeVars, connVars, g, cl, streamingServers, clock,
                   nextSweep, req, resp, nFrames, sentMax, joinHist, enqHist>>

\* ---------------------------------------------------------- upload server
\* an upload handler that transcodes and stores whatever the size of the body
handleVideoUpload_NoLimit(k, size, transcoded, now) ==
    /\ IF transcoded
       THEN /\ objects' = objects \cup {k}
            /\ kvState' = [kvState EXCEPT ![k] = PlaybackState(now, 0)]
            /\ accMax' = [accMax EXCEPT ![k] = Max(@, now)]
            /\ ttl' = [ttl EXCEPT ![k].state = REDIS_MSG_EXPIRY]
            /\ uploadResp' = [uploadResp EXCEPT ![k] = 201]
       ELSE /\ uploadResp' = [uploadResp EXCEPT ![k] = 500]
            /\ UNCHANGED <<objects, kvState, accMax, ttl>>
    /\ UNCHANGED <<err, kvSession, kvHost, subs, nodeVars, connVars, g, cl, dirVars, pump,
                   sockWriters, seen, nFrames, sentMax, created, joinHist, enqHist>>

\* handleVideoUpload for the path variable sessionID = k and a body of the given
\* size: MaxBytesReader makes ParseMultipartForm fail on a body over
\* MAX_UPLOAD_SIZE and the handler answers 400; otherwise the file is
\* transcoded (a failure of ffmpeg answers 500), master.m3u8 and the segments
\* are uploaded, and session:<k>:state is set to the initial state stamped
\* time.Now().UnixMilli(), with no look at what the key holds: 201.
handleVideoUpload(k, size, transcoded, now) ==
    /\ IF size > MAX_UPLOAD_SIZE
       THEN /\ uploadResp' = [uploadResp EXCEPT ![k] = 400]
            /\ UNCHANGED <<objects, kvState, accMax, ttl>>
       ELSE IF transcoded
       THEN /\ objects' = objects \cup {k}
            /\ kvState' = [kvState EXCEPT ![k] = PlaybackState(now, 0)]
            /\ accMax' = [accMax EXCEPT ![k] = Max(@, now)]
            /\ ttl' = [ttl EXCEPT ![k].state = REDIS_MSG_EXPIRY]
            /\ uploadResp' = [uploadResp EXCEPT ![k] = 201]
       ELSE /\ uploadResp' = [uploadResp EXCEPT ![k] = 500]
            /\ UNCHANGED <<objects, kvState, accMax, ttl>>
    /\ UNCHANGED <<err, kvSession, kvHost, subs, nodeVars, connVars, g, cl, dirVars, pump,
                   sockWriters, seen, nFrames, sentMax, created, joinHist, enqHist>>

\* ---------------------------------------------------------- key expiry
\* One step of the keyspace's time: every key's time to live goes down by one
\* and a key whose time is up is deleted by Redis.
Elapse ==
    /\ \E k \in Sessions : ttl[k] # NoTTL
    /\ ttl' = [k \in Sessions |->
                 [session |-> Max(ttl[k].session - 1, 0),
                  host    |-> Max(ttl[k].host - 1, 0),
                  state   |-> Max(ttl[k].state - 1, 0)]]
    /\ kvSession' = {k \in kvSession : ttl[k].session > 1}
    /\ kvHost' = [k \in Sessions |-> IF ttl[k].host > 1 THEN kvHost[k] ELSE NoToken]
    /\ kvState' = [k \in Sessions |-> IF ttl[k].state > 1 THEN kvState[k] ELSE redisNil]
    /\ UNCHANGED <<err, subs, nodeVars, connVars, g, cl, dirVars, uploadResp, objects, pump,
                   sockWriters, seen, histVars>>

\* the comparison with <= for <
LoadLess_OrEqual(load, lowestLoad) ==
    /\ load[2] > 0
    /\ load[1] * lowestLoad[2] <= lowestLoad[1] * load[2]

\* float64(server.CurrentLoad) / float64(server.Capacity) < lowestLoad, the
\* quotients kept as pairs <<numerator, denominator>>; a division by zero gives
\* NaN or +Inf, which is less than nothing
LoadLess(load, lowestLoad) ==
    /\ load[2] > 0
    /\ load[1] * lowestLoad[2] < lowestLoad[1] * load[2]

\* the loop of getLeastLoadedServer over the map in the order the range
\* statement yields its keys; the result is an ID, "" for nil
RECURSIVE ScanServers(_, _, _, _)
ScanServers(order, i, bestServer, lowestLoad) ==
    IF i > Len(order) THEN bestServer
    ELSE LET server == streamingServers[order[i]]
             load == <<server.CurrentLoad, server.Capacity>>
         IN  IF server.Status # "active"
             THEN ScanServers(order, i + 1, bestServer, lowestLoad)
             ELSE IF LoadLess(load, lowestLoad)
             THEN ScanServers(order, i + 1, order[i], load)
             ELSE ScanServers(order, i + 1, bestServer, lowestLoad)

\* a selection that returns the first active entry of the range
getLeastLoadedServer_FirstActive(order) ==
    IF \E i \in 1..Len(order) : streamingServers[order[i]].Status = "active"
    THEN order[CHOOSE i \in 1..Len(order) :
                  /\ streamingServers[order[i]].Status = "active"
                  /\ \A j \in 1..(i - 1) : streamingServers[order[j]].Status # "active"]
    ELSE ""

getLeastLoadedServer(order) == ScanServers(order, 1, "", <<1, 1>>)

\* the keys of the registry and the orders in which a range over it may run
Registered == {id \in Nodes : streamingServers[id] # NoServer}
RangeOrders ==
    {o \in [1..Cardinality(Registered) -> Registered] :
        \A i, j \in 1..Cardinality(Registered) : i # j => o[i] # o[j]}

\* strings.HasPrefix(serverURL, "http"), then strings.TrimSuffix(serverURL, "/")
StreamingURL(url) ==
    [scheme |-> IF url.scheme = "" THEN "http" ELSE url.scheme,
     host |-> url.host, slash |-> FALSE]

\* a validate that never grants the host role
validateIsHost_Never(k, hostToken) == FALSE

\* a validate that grants the host role to any token
validateIsHost_AnyToken(k, hostToken) == hostToken # NoToken

\* validateSession, "Validate host token if provided"
validateIsHost(k, hostToken) ==
    IF hostToken # NoToken
    THEN (kvHost[k] # NoToken /\ kvHost[k] = hostToken)
    ELSE FALSE

\* the response of validateSession when the range over the registry runs in
\* the given order
validateResponse(k, hostToken, order) ==
    IF k \notin kvSession
    THEN [NoResp EXCEPT !.status = 200, !.error = "session_not_found"]
    ELSE IF getLeastLoadedServer(order) = ""
    THEN [NoResp EXCEPT !.status = 503, !.error = "no_streaming_servers_available"]
    ELSE [status |-> 200, valid |-> TRUE, isHost |-> validateIsHost(k, hostToken),
          error |-> "", server |-> getLeastLoadedServer(order),
          streaming_url |->
              StreamingURL(streamingServers[getLeastLoadedServer(order)].URL)]

\* validateSession as the browser behind connection c calls it before it opens
\* its WebSocket; video_player.js keeps the isHost of a valid answer.
validateSession(c, k, hostToken) ==
    /\ pc[c] = "none"
    /\ req' = [req EXCEPT ![c] = [sessionKey |-> k, hostToken |-> hostToken]]
    /\ \E order \in RangeOrders :
          /\ resp' = [resp EXCEPT ![c] = validateResponse(k, hostToken, order)]
          /\ cl' = [cl EXCEPT ![c] =
                      IF validateResponse(k, hostToken, order).valid
                      THEN [sessionKey |-> k,
                            isHost |-> validateResponse(k, hostToken, order).isHost]
                      ELSE @]
    /\ UNCHANGED <<auxVars, redisVars, nodeVars, connVars, g, streamingServers, clock,
                   nextSweep, createResp, histVars>>

\* registerStreamingServer: the decoded descriptor is stored under its ID with
\* LastPing (and Registered) set from the clock
registerStreamingServer(server) ==
    /\ streamingServers' =
          [streamingServers EXCEPT ![server.ID] = [server EXCEPT !.LastPing = clock]]
    /\ UNCHANGED <<auxVars, redisVars, nodeVars, connVars, g, cl, clock, nextSweep, req, resp,
                   createResp, histVars>>

\* a heartbeat that stores the descriptor whether or not the ID is known
handleHeartbeat_Upsert(server) ==
    /\ streamingServers' =
          [streamingServers EXCEPT ![server.ID] =
              [server EXCEPT !.LastPing = clock, !.Status = "active"]]
    /\ UNCHANGED <<auxVars, redisVars, nodeVars, connVars, g, cl, clock, nextSweep, req, resp,
                   createResp, histVars>>

\* handleHeartbeat: if existingServer, exists := streamingServers[server.ID]
handleHeartbeat(server) ==
    /\ streamingServers' =
          IF streamingServers[server.ID] # NoServer
          THEN [streamingServers EXCEPT ![server.ID] =
                   [@ EXCEPT !.CurrentLoad = server.CurrentLoad,
                             !.LastPing = clock,
                             !.Status = "active"]]
          ELSE streamingServers
    /\ UNCHANGED <<auxVars, redisVars, nodeVars, connVars, g, cl, clock, nextSweep, req, resp,
                   createResp, histVars>>

\* one tick of the ticker of cleanupInactiveServers
cleanupInactiveServers ==
    /\ clock = nextSweep
    /\ streamingServers' =
          [id \in Nodes |->
              IF streamingServers[id] # NoServer
                 /\ clock - streamingServers[id].LastPing > PingExpiry
              THEN NoServer ELSE streamingServers[id]]
    /\ nextSweep' = nextSweep + SweepPeriod
    /\ UNCHANGED <<auxVars, redisVars, nodeVars, connVars, g, cl, clock, req, resp,
                   createResp, histVars>>

\* a second passes on the director's clock; a tick of the ticker that is due
\* is served first
Tick ==
    /\ clock < MaxClock
    /\ clock < nextSweep
    /\ clock' = clock + 1
    /\ UNCHANGED <<auxVars, redisVars, nodeVars, connVars, g, cl, streamingServers,
                   nextSweep, req, resp, createResp, histVars>>

\* ======================================================== streaming node
\* SERVER_URL of node n
serverURL(n) == [scheme |-> "", host |-> n, slash |-> FALSE]

\* the StreamingServer value a node marshals for the director; capacity is the
\* package variable of that name
NodeDescriptor(n, load) ==
    [ID |-> n, URL |-> serverURL(n), Capacity |-> MaxCap, CurrentLoad |-> load,
     Status |-> "active", LastPing |-> 0]

\* registerWithMainServer: POST /api/streaming-servers/register at start-up
registerWithMainServer(n) ==
    /\ ~crashed[n]
    /\ registerStreamingServer(NodeDescriptor(n, 0))

\* one tick of sendHeartbeats: POST /api/streaming-servers/heartbeat with the
\* value of numClients read under numClients_lock
sendHeartbeats(n) ==
    /\ ~crashed[n]
    /\ handleHeartbeat(NodeDescriptor(n, numClients[n]))

\* an enqueue that makes room in a full channel by discarding its oldest message
TrySend_DropOldest(n, d, st) ==
    IF sendState[d] = "closed"
    THEN /\ crashed' = [crashed EXCEPT ![n] = TRUE]
         /\ UNCHANGED <<send, firstEnq, lastEnq, overflow>>
    ELSE /\ send' = [send EXCEPT ![d] =
                        Append(IF Len(@) < QueueCap THEN @ ELSE Tail(@), st)]
         /\ firstEnq' = [firstEnq EXCEPT ![d] = IF @ = redisNil THEN st ELSE @]
         /\ lastEnq' = [lastEnq EXCEPT ![d] = st]
         /\ overflow' = (overflow \/ Len(send[d]) >= QueueCap)
         /\ UNCHANGED crashed

\* select { case client.send <- payload: default: log } on the channel of
\* connection d by a goroutine of node n.  A send on a closed channel panics.
TrySend(n, d, st) ==
    IF sendState[d] = "closed"
    THEN /\ crashed' = [crashed EXCEPT ![n] = TRUE]
         /\ UNCHANGED <<send, firstEnq, lastEnq, overflow>>
    ELSE IF Len(send[d]) < QueueCap
    THEN /\ send' = [send EXCEPT ![d] = Append(@, st)]
         /\ firstEnq' = [firstEnq EXCEPT ![d] = IF @ = redisNil THEN st ELSE @]
         /\ lastEnq' = [lastEnq EXCEPT ![d] = st]
         /\ UNCHANGED <<crashed, overflow>>
    ELSE /\ overflow' = TRUE
         /\ UNCHANGED <<send, firstEnq, lastEnq, crashed>>

\* client_lock[sessionID].Lock(): the map is looked up at the call
LockOf(n, k) == client_lock[n][k]

\* handleWebSocket up to the check of the client_lock map
handleWebSocket(c, n, k, isHost) ==
    /\ pc[c] = "none"
    /\ \A c2 \in Conns : c2 < c => pc[c2] # "none"
    /\ ~crashed[n]
    /\ conn' = [conn EXCEPT ![c] = [node |-> n, sessionID |-> k, isHost |-> isHost]]
    /\ sendState' = [sendState EXCEPT ![c] = "open"]
    /\ pc' = [pc EXCEPT ![c] = IF client_lock[n][k] = NoMutex THEN "mklock" ELSE "lock"]
    /\ joinFloor' = [joinFloor EXCEPT ![c] = accMax[k]]
    /\ pump' = [pump EXCEPT ![c] = "run"]
    /\ UNCHANGED <<err, uploadResp, objects, ttl, sockWriters, seen, redisVars, nodeVars, val,
                   msg, send, g, dirVars, cl, nFrames, writeHist, readFloor, initSent,
                   enqHist>>

\* client_lock[sessionID] = &sync.Mutex{}
wsNewLock(c) ==
    /\ pc[c] = "mklock" /\ Alive(c)
    /\ client_lock' = [client_lock EXCEPT ![NodeOf(c)][SessOf(c)] = <<"h", c, SessOf(c)>>]
    /\ pc' = [pc EXCEPT ![c] = "lock"]
    /\ UNCHANGED <<auxVars, redisVars, pubsub, clients, held, numClients, crashed,
                   conn, val, msg, send, sendState, g, dirVars, cl, histVars>>

wsLock(c) ==
    /\ pc[c] = "lock" /\ Alive(c)
    /\ LockOf(NodeOf(c), SessOf(c)) \notin held
    /\ held' = held \cup {LockOf(NodeOf(c), SessOf(c))}
    /\ seen' = [seen EXCEPT ![c] = clients[NodeOf(c)][SessOf(c)]]
    /\ pc' = [pc EXCEPT ![c] = "append"]
    /\ UNCHANGED <<err, uploadResp, objects, ttl, pump, sockWriters, redisVars, pubsub, clients, client_lock, numClients, crashed,
                   conn, val, msg, send, sendState, g, dirVars, cl, histVars>>

\* another goroutine of c's node is at its own access to the map clients
MapRace(c) ==
    \E d \in Conns \ {c} :
        \/ NodeOf(d) = NodeOf(c) /\ pc[d] \in {"append", "cremove"}
        \/ NodeOf(d) = NodeOf(c) /\ g[d].pc = "bsnap"

\* clients[sessionID] = append(clients[sessionID], client): a read of the map
\* and a write to it.  When the Lock excludes nobody, the read and the write
\* race with the accesses of the other goroutines: the slice read is the
\* bucket as it is at the write or as it was when the Lock returned, and a
\* write that meets another access of the map can end the process with the
\* runtime's "concurrent map writes".
wsAppend(c) ==
    /\ pc[c] = "append" /\ Alive(c)
    /\ \/ /\ \E base \in {clients[NodeOf(c)][SessOf(c)], seen[c]} :
                 clients' = [clients EXCEPT ![NodeOf(c)][SessOf(c)] = Append(base, c)]
          /\ pc' = [pc EXCEPT ![c] = "unlock"]
          /\ UNCHANGED crashed
       \/ /\ MapRace(c)
          /\ crashed' = [crashed EXCEPT ![NodeOf(c)] = TRUE]
          /\ UNCHANGED <<clients, pc>>
    /\ seen' = [seen EXCEPT ![c] = <<>>]
    /\ UNCHANGED <<err, uploadResp, objects, ttl, pump, sockWriters, redisVars, pubsub,
                   client_lock, held, numClients, conn, val, msg, send, sendState, g,
                   dirVars, cl, histVars>>

\* client_lock[sessionID].Unlock(): unlocking an unlocked mutex is a fatal error
wsUnlock(c) ==
    /\ pc[c] = "unlock" /\ Alive(c)
    /\ IF LockOf(NodeOf(c), SessOf(c)) \in held
       THEN /\ held' = held \ {LockOf(NodeOf(c), SessOf(c))}
            /\ pc' = [pc EXCEPT ![c] = "inc"]
            /\ UNCHANGED crashed
       ELSE /\ crashed' = [crashed EXCEPT ![NodeOf(c)] = TRUE]
            /\ UNCHANGED <<held, pc>>
    /\ UNCHANGED <<auxVars, redisVars, pubsub, clients, client_lock, numClients,
                   conn, val, msg, send, sendState, g, dirVars, cl, histVars>>

\* numClients_lock.Lock(); numClients += 1; numClients_lock.Unlock()
wsInc(c) ==
    /\ pc[c] = "inc" /\ Alive(c)
    /\ numClients' = [numClients EXCEPT ![NodeOf(c)] = @ + 1]
    /\ pc' = [pc EXCEPT ![c] = "subscribe"]
    /\ UNCHANGED <<auxVars, redisVars, pubsub, clients, client_lock, held, crashed,
                   conn, val, msg, send, sendState, g, dirVars, cl, histVars>>

\* subscribeToSessionUpdates: pubsub = rdb.Subscribe(...); go func() {...}()
subscribeToSessionUpdates(c) ==
    /\ pc[c] = "subscribe" /\ Alive(c)
    /\ subs' = [subs EXCEPT ![c] = [channel |-> SessOf(c), buf |-> <<>>]]
    /\ pubsub' = [pubsub EXCEPT ![NodeOf(c)] = c]
    /\ g' = [g EXCEPT ![c] = [NoG EXCEPT !.pc = "top"]]
    /\ pc' = [pc EXCEPT ![c] = IF conn[c].isHost THEN "read" ELSE "initget"]
    /\ UNCHANGED <<auxVars, kvSession, kvHost, kvState, clients, client_lock, held,
                   numClients, crashed, conn, val, msg, send, sendState, dirVars, cl,
                   histVars>>

\* an initial-state read that goes on to the enqueue whatever it read
wsInitGet_AlwaysSend(c) ==
    /\ pc[c] = "initget" /\ Alive(c)
    /\ val' = [val EXCEPT ![c] = kvState[SessOf(c)]]
    /\ readFloor' = [readFloor EXCEPT ![c] = accMax[SessOf(c)]]
    /\ pc' = [pc EXCEPT ![c] = "initsend"]
    /\ UNCHANGED <<auxVars, redisVars, nodeVars, conn, msg, send, sendState, g, dirVars, cl,
                   nFrames, writeHist, joinFloor, initSent, enqHist>>

\* "Send the initial state to the client": rdb.Get, then json.Unmarshal(val);
\* the empty val of redis.Nil does not unmarshal and the handler returns
wsInitGet(c) ==
    /\ pc[c] = "initget" /\ Alive(c)
    /\ val' = [val EXCEPT ![c] = kvState[SessOf(c)]]
    /\ readFloor' = [readFloor EXCEPT ![c] = accMax[SessOf(c)]]
    /\ pc' = [pc EXCEPT ![c] = IF kvState[SessOf(c)] = redisNil THEN "close"
                               ELSE "initsend"]
    /\ UNCHANGED <<auxVars, redisVars, nodeVars, conn, msg, send, sendState, g, dirVars, cl,
                   nFrames, writeHist, joinFloor, initSent, enqHist>>

\* select { case client.send <- payload: default: }
wsInitSend(c) ==
    /\ pc[c] = "initsend" /\ Alive(c)
    /\ TrySend(NodeOf(c), c, val[c])
    /\ initSent' = [initSent EXCEPT ![c] = IF Len(send[c]) < QueueCap THEN val[c] ELSE @]
    /\ val' = [val EXCEPT ![c] = redisNil]
    /\ pc' = [pc EXCEPT ![c] = "read"]
    /\ UNCHANGED <<auxVars, redisVars, pubsub, clients, client_lock, held, numClients,
                   conn, msg, sendState, g, dirVars, cl, nFrames, writeHist,
                   joinFloor, readFloor>>


\* ------------------------------------------------- handleClientMessage
\* the gate without the test of the host flag
IsHostGate_Always(c) == TRUE

\* case "stateUpdate": if client.isHost { ... }
IsHostGate(c) == conn[c].isHost

\* the comparison with >= for >
MsgWins_OrEqual(stateFromMsg, stateFromRedis) ==
    stateFromMsg.Timestamp >= stateFromRedis.Timestamp

\* "Compare the timestamps"
MsgWins(stateFromMsg, stateFromRedis) ==
    stateFromMsg.Timestamp > stateFromRedis.Timestamp

\* conn.ReadMessage returns a stateUpdate frame carrying st and
\* handleClientMessage unmarshals it; a host handler goes on to rdb.Get, the
\* two json.Unmarshal calls and the comparison.
recvStateUpdate(c, st) ==
    /\ pc[c] = "read" /\ Alive(c)
    /\ nFrames' = [nFrames EXCEPT ![c] = @ + 1]
    /\ msg' = [msg EXCEPT ![c] = st]
    /\ IF IsHostGate(c)
       THEN /\ sentMax' = [sentMax EXCEPT ![SessOf(c)] = Max(@, st.Timestamp)]
            /\ pc' = [pc EXCEPT ![c] =
                         IF /\ kvState[SessOf(c)] # redisNil
                            /\ MsgWins(st, kvState[SessOf(c)])
                         THEN "setex" ELSE "read"]
       ELSE UNCHANGED <<sentMax, pc>>
    /\ err' = [err EXCEPT ![c] = NoErr]
    /\ UNCHANGED <<uploadResp, objects, ttl, pump, sockWriters, seen, redisVars, nodeVars, conn, val, send, sendState, g, dirVars, cl, accMax,
                   created, joinHist, enqHist>>

\* rdb.SetEX(ctx, "session:"+sessionID+":state", stateJson, REDIS_MSG_EXPIRY);
\* an error is logged and the handler goes on to publish
hostSetEX(c, ok) ==
    /\ pc[c] = "setex" /\ Alive(c)
    /\ IF ok
       THEN /\ kvState' = [kvState EXCEPT ![SessOf(c)] = msg[c]]
            /\ accMax' = [accMax EXCEPT ![SessOf(c)] = Max(@, msg[c].Timestamp)]
            /\ ttl' = [ttl EXCEPT ![SessOf(c)].state = REDIS_MSG_EXPIRY]
       ELSE UNCHANGED <<kvState, accMax, ttl>>
    /\ err' = [err EXCEPT ![c].setex = ~ok]
    /\ pc' = [pc EXCEPT ![c] = "publish"]
    /\ UNCHANGED <<uploadResp, objects, pump, sockWriters, seen, kvSession, kvHost, subs, nodeVars, conn, val, msg, send,
                   sendState, g, dirVars, cl, nFrames, sentMax, created, joinHist, enqHist>>

\* a publish whose failure ends the handler's receive loop
publishStateUpdate_AbortOnError(c, ok) ==
    /\ pc[c] = "publish" /\ Alive(c)
    /\ IF ok
       THEN subs' = [d \in Conns |->
                       IF subs[d].channel = SessOf(c)
                       THEN [subs[d] EXCEPT !.buf = Append(@, msg[c])]
                       ELSE subs[d]]
       ELSE UNCHANGED subs
    /\ err' = [err EXCEPT ![c].publish = ~ok]
    /\ pc' = [pc EXCEPT ![c] = IF ok THEN "read" ELSE "close"]
    /\ UNCHANGED <<uploadResp, objects, ttl, pump, sockWriters, seen, kvSession, kvHost, kvState,
                   nodeVars, conn, val, msg, send, sendState, g, dirVars, cl, histVars>>

\* publishStateUpdate: rdb.Publish(ctx, "session-updates:"+sessionID, payload);
\* an error is logged and the function returns as it does without one;
\* Redis hands the payload to every subscription of the channel
publishStateUpdate(c, ok) ==
    /\ pc[c] = "publish" /\ Alive(c)
    /\ IF ok
       THEN subs' = [d \in Conns |->
                       IF subs[d].channel = SessOf(c)
                       THEN [subs[d] EXCEPT !.buf = Append(@, msg[c])]
                       ELSE subs[d]]
       ELSE UNCHANGED subs
    /\ err' = [err EXCEPT ![c].publish = ~ok]
    /\ pc' = [pc EXCEPT ![c] = "read"]
    /\ UNCHANGED <<uploadResp, objects, ttl, pump, sockWriters, seen, kvSession, kvHost, kvState,
                   nodeVars, conn, val, msg, send, sendState, g, dirVars, cl, histVars>>

\* msg.State of a stateUpdate frame whose state does not unmarshal into
\* RedisState
Unparsable == [Timestamp |-> -2, CurrentTime |-> -2]

\* a handler that leaves the receive loop on a frame it cannot parse
recvMalformed_Abort(c, kind) ==
    /\ pc[c] = "read" /\ Alive(c)
    /\ nFrames' = [nFrames EXCEPT ![c] = @ + 1]
    /\ msg' = [msg EXCEPT ![c] = IF kind = "badState" THEN Unparsable ELSE redisNil]
    /\ pc' = [pc EXCEPT ![c] = "close"]
    /\ UNCHANGED <<auxVars, redisVars, nodeVars, conn, val, send, sendState, g,
                   dirVars, cl, writeHist, joinHist, enqHist>>

\* conn.ReadMessage returns a frame that is not a JSON object ("notJSON":
\* json.Unmarshal(message, &msg) fails, return) or a stateUpdate whose state
\* cannot be parsed ("badState": for a host rdb.Get, then one of the two
\* json.Unmarshal calls fails, return; for a participant nothing is done).
\* handleClientMessage returns and the loop reads the next frame.
recvMalformed(c, kind) ==
    /\ pc[c] = "read" /\ Alive(c)
    /\ nFrames' = [nFrames EXCEPT ![c] = @ + 1]
    /\ msg' = [msg EXCEPT ![c] = IF kind = "badState" THEN Unparsable ELSE redisNil]
    /\ UNCHANGED <<auxVars, redisVars, nodeVars, conn, pc, val, send, sendState, g,
                   dirVars, cl, writeHist, joinHist, enqHist>>

\* conn.ReadMessage returns a frame of type heartbeatAck: the switch of
\* handleClientMessage has no case for it
recvHeartbeatAck(c) ==
    /\ pc[c] = "read" /\ Alive(c)
    /\ nFrames' = [nFrames EXCEPT ![c] = @ + 1]
    /\ UNCHANGED <<auxVars, redisVars, nodeVars, connVars, g, dirVars, cl, writeHist,
                   joinHist, enqHist>>

\* the payload of the reply to a videoMetadata request
VideoManifest == [ChunkDuration |-> 5, ChunkCount |-> 10, VideoDuration |-> 117,
                  VideoFileType |-> "mp4"]
videoMetadata == [type |-> "videoMetadata", state |-> VideoManifest]

\* conn.ReadMessage returns a videoMetadata frame; the reply is marshalled
recvVideoMetadata(c) ==
    /\ pc[c] = "read" /\ Alive(c)
    /\ nFrames' = [nFrames EXCEPT ![c] = @ + 1]
    /\ pc' = [pc EXCEPT ![c] = "metasend"]
    /\ UNCHANGED <<auxVars, redisVars, nodeVars, conn, val, msg, send, sendState, g,
                   dirVars, cl, writeHist, joinHist, enqHist>>

\* an enqueue of the reply that drops it when the channel is full
metaSend_NonBlocking(c) ==
    /\ pc[c] = "metasend" /\ Alive(c)
    /\ send' = [send EXCEPT ![c] =
                  IF Len(@) < QueueCap THEN Append(@, videoMetadata) ELSE @]
    /\ pc' = [pc EXCEPT ![c] = "read"]
    /\ UNCHANGED <<auxVars, redisVars, nodeVars, conn, val, msg, sendState, g,
                   dirVars, cl, histVars>>

\* a reply that is enqueued to every connection of the sender's bucket
metaSend_ToBucket(c) ==
    /\ pc[c] = "metasend" /\ Alive(c)
    /\ Len(send[c]) < QueueCap
    /\ send' = [d \in Conns |->
                  IF /\ \E i \in 1..Len(clients[NodeOf(c)][SessOf(c)]) :
                           clients[NodeOf(c)][SessOf(c)][i] = d
                     /\ Len(send[d]) < QueueCap
                  THEN Append(send[d], videoMetadata) ELSE send[d]]
    /\ pc' = [pc EXCEPT ![c] = "read"]
    /\ UNCHANGED <<auxVars, redisVars, nodeVars, conn, val, msg, sendState, g,
                   dirVars, cl, histVars>>

\* client.send <- payload: the handler waits until the channel has room
metaSend(c) ==
    /\ pc[c] = "metasend" /\ Alive(c)
    /\ Len(send[c]) < QueueCap
    /\ send' = [send EXCEPT ![c] = Append(@, videoMetadata)]
    /\ pc' = [pc EXCEPT ![c] = "read"]
    /\ UNCHANGED <<auxVars, redisVars, nodeVars, conn, val, msg, sendState, g,
                   dirVars, cl, histVars>>

\* conn.ReadMessage returns a heartbeat frame:
\* client.conn.WriteJSON(heartbeatAck), in the handler's goroutine
recvHeartbeat(c) ==
    /\ pc[c] = "read" /\ Alive(c)
    /\ nFrames' = [nFrames EXCEPT ![c] = @ + 1]
    /\ sockWriters' = [sockWriters EXCEPT ![c] = @ \cup {"handleClientMessage"}]
    /\ UNCHANGED <<err, uploadResp, objects, ttl, pump, seen, redisVars, nodeVars, connVars,
                   g, dirVars, cl, writeHist, joinHist, enqHist>>

\* conn.ReadMessage returns an error: break, then the deferred cleanupClient
readError(c) ==
    /\ pc[c] = "read" /\ Alive(c)
    /\ pc' = [pc EXCEPT ![c] = "close"]
    /\ UNCHANGED <<auxVars, redisVars, nodeVars, conn, val, msg, send, sendState, g, dirVars, cl,
                   histVars>>

\* ---------------------------------------------------------- writePump
\* msg, ok := <-c.send; c.conn.WriteMessage(websocket.TextMessage, msg)
writePump(c) ==
    /\ sendState[c] # "nil" /\ Alive(c)
    /\ pump[c] = "run"
    /\ send[c] # <<>>
    /\ send' = [send EXCEPT ![c] = Tail(@)]
    /\ sockWriters' = [sockWriters EXCEPT ![c] = @ \cup {"writePump"}]
    /\ UNCHANGED <<err, uploadResp, objects, ttl, pump, seen, redisVars, nodeVars, conn, pc,
                   val, msg, sendState, g, dirVars, cl, histVars>>

\* msg, ok := <-c.send; WriteMessage returns an error: log and return
writePumpError(c) ==
    /\ sendState[c] # "nil" /\ Alive(c)
    /\ pump[c] = "run"
    /\ send[c] # <<>>
    /\ send' = [send EXCEPT ![c] = Tail(@)]
    /\ sockWriters' = [sockWriters EXCEPT ![c] = @ \cup {"writePump"}]
    /\ pump' = [pump EXCEPT ![c] = "stopped"]
    /\ UNCHANGED <<err, uploadResp, objects, ttl, seen, redisVars, nodeVars, conn, pc,
                   val, msg, sendState, g, dirVars, cl, histVars>>

\* msg, ok := <-c.send with the channel closed and drained: !ok, the close
\* message is written and the pump returns
writePumpClosed(c) ==
    /\ sendState[c] = "closed" /\ Alive(c)
    /\ pump[c] = "run"
    /\ send[c] = <<>>
    /\ sockWriters' = [sockWriters EXCEPT ![c] = @ \cup {"writePump"}]
    /\ pump' = [pump EXCEPT ![c] = "done"]
    /\ UNCHANGED <<err, uploadResp, objects, ttl, seen, redisVars, nodeVars, connVars, g,
                   dirVars, cl, histVars>>

\* ------------------------------------------------------- cleanupClient
\* a cleanup that leaves the channel open
cleanupClose_KeepOpen(c) ==
    /\ pc[c] = "close" /\ Alive(c)
    /\ pc' = [pc EXCEPT ![c] = IF client_lock[NodeOf(c)][SessOf(c)] = NoMutex
                               THEN "cmklock" ELSE "clock"]
    /\ UNCHANGED <<auxVars, redisVars, nodeVars, conn, val, msg, send, sendState, g, dirVars, cl,
                   histVars>>

\* close(client.send), then the check of the client_lock map
cleanupClose(c) ==
    /\ pc[c] = "close" /\ Alive(c)
    /\ sendState' = [sendState EXCEPT ![c] = "closed"]
    /\ pc' = [pc EXCEPT ![c] = IF client_lock[NodeOf(c)][SessOf(c)] = NoMutex
                               THEN "cmklock" ELSE "clock"]
    /\ UNCHANGED <<auxVars, redisVars, nodeVars, conn, val, msg, send, g, dirVars, cl, histVars>>

cleanupNewLock(c) ==
    /\ pc[c] = "cmklock" /\ Alive(c)
    /\ client_lock' = [client_lock EXCEPT ![NodeOf(c)][SessOf(c)] = <<"c", c, SessOf(c)>>]
    /\ pc' = [pc EXCEPT ![c] = "clock"]
    /\ UNCHANGED <<auxVars, redisVars, pubsub, clients, held, numClients, crashed,
                   conn, val, msg, send, sendState, g, dirVars, cl, histVars>>

cleanupLock(c) ==
    /\ pc[c] = "clock" /\ Alive(c)
    /\ LockOf(NodeOf(c), SessOf(c)) \notin held
    /\ held' = held \cup {LockOf(NodeOf(c), SessOf(c))}
    /\ pc' = [pc EXCEPT ![c] = "cremove"]
    /\ UNCHANGED <<auxVars, redisVars, pubsub, clients, client_lock, numClients, crashed,
                   conn, val, msg, send, sendState, g, dirVars, cl, histVars>>

\* the slice without its first occurrence of c
RemoveClient(s, c) ==
    IF \E i \in 1..Len(s) : s[i] = c
    THEN LET i == CHOOSE i \in 1..Len(s) : s[i] = c /\ \A j \in 1..(i-1) : s[j] # c
         IN  SubSeq(s, 1, i-1) \o SubSeq(s, i+1, Len(s))
    ELSE s

\* the loop over sessionClients; an empty bucket unlocks and returns at once
cleanupRemove(c) ==
    /\ pc[c] = "cremove" /\ Alive(c)
    /\ IF clients[NodeOf(c)][SessOf(c)] = <<>>
       THEN /\ pc' = [pc EXCEPT ![c] = "cunlockret"]
            /\ UNCHANGED clients
       ELSE /\ clients' = [clients EXCEPT ![NodeOf(c)][SessOf(c)] = RemoveClient(@, c)]
            /\ pc' = [pc EXCEPT ![c] = "cunlock"]
    /\ UNCHANGED <<auxVars, redisVars, pubsub, client_lock, held, numClients, crashed,
                   conn, val, msg, send, sendState, g, dirVars, cl, histVars>>

cleanupUnlock(c) ==
    /\ pc[c] \in {"cunlock", "cunlockret"} /\ Alive(c)
    /\ IF LockOf(NodeOf(c), SessOf(c)) \in held
       THEN /\ held' = held \ {LockOf(NodeOf(c), SessOf(c))}
            /\ pc' = [pc EXCEPT ![c] = IF pc[c] = "cunlock" THEN "dec" ELSE "done"]
            /\ UNCHANGED crashed
       ELSE /\ crashed' = [crashed EXCEPT ![NodeOf(c)] = TRUE]
            /\ UNCHANGED <<held, pc>>
    /\ UNCHANGED <<auxVars, redisVars, pubsub, clients, client_lock, numClients,
                   conn, val, msg, send, sendState, g, dirVars, cl, histVars>>

\* numClients_lock.Lock(); numClients -= 1; numClients_lock.Unlock()
cleanupDec(c) ==
    /\ pc[c] = "dec" /\ Alive(c)
    /\ numClients' = [numClients EXCEPT ![NodeOf(c)] = @ - 1]
    /\ pc' = [pc EXCEPT ![c] = "done"]
    /\ UNCHANGED <<auxVars, redisVars, pubsub, clients, client_lock, held, crashed,
                   conn, val, msg, send, sendState, g, dirVars, cl, histVars>>


\* ------------------------------------- receiver goroutine of a subscribe
\* The goroutine started by connection c's subscribeToSessionUpdates, on c's
\* node.  "pubsub.ReceiveMessage(ctx)": the global pubsub is read at each turn
\* of the loop, without synchronisation with the assignments to it; the read
\* returns what the variable holds at that moment, and the call then blocks on
\* that subscription.
recvTop(c) ==
    /\ g[c].pc = "top" /\ Alive(c)
    /\ g' = [g EXCEPT ![c].pc = "recv", ![c].cur = pubsub[NodeOf(c)]]
    /\ UNCHANGED <<auxVars, redisVars, nodeVars, connVars, dirVars, cl, histVars>>

\* ReceiveMessage returns the next message of the subscription it blocks on;
\* handleSessionUpdate, then broadcastState up to the check of client_lock
recvMessage(c) ==
    /\ g[c].pc = "recv" /\ Alive(c)
    /\ subs[g[c].cur].buf # <<>>
    /\ subs' = [subs EXCEPT ![g[c].cur].buf = Tail(@)]
    /\ g' = [g EXCEPT ![c].channel = subs[g[c].cur].channel,
                      ![c].payload = Head(subs[g[c].cur].buf),
                      ![c].pc = IF client_lock[NodeOf(c)][subs[g[c].cur].channel] = NoMutex
                                THEN "bmklock" ELSE "block"]
    /\ UNCHANGED <<auxVars, kvSession, kvHost, kvState, nodeVars, connVars, dirVars, cl, histVars>>

broadcastNewLock(c) ==
    /\ g[c].pc = "bmklock" /\ Alive(c)
    /\ client_lock' = [client_lock EXCEPT ![NodeOf(c)][g[c].channel] = <<"g", c, g[c].channel>>]
    /\ g' = [g EXCEPT ![c].pc = "block"]
    /\ UNCHANGED <<auxVars, redisVars, pubsub, clients, held, numClients, crashed,
                   connVars, dirVars, cl, histVars>>

broadcastLock(c) ==
    /\ g[c].pc = "block" /\ Alive(c)
    /\ LockOf(NodeOf(c), g[c].channel) \notin held
    /\ held' = held \cup {LockOf(NodeOf(c), g[c].channel)}
    /\ g' = [g EXCEPT ![c].pc = "bsnap"]
    /\ UNCHANGED <<auxVars, redisVars, pubsub, clients, client_lock, numClients, crashed,
                   connVars, dirVars, cl, histVars>>

\* sessionClients, exists := clients[sessionID]; copy(clientsToSend, sessionClients)
broadcastSnapshot(c) ==
    /\ g[c].pc = "bsnap" /\ Alive(c)
    /\ g' = [g EXCEPT ![c].snap = clients[NodeOf(c)][g[c].channel],
                      ![c].pc = "bunlock"]
    /\ UNCHANGED <<auxVars, redisVars, nodeVars, connVars, dirVars, cl, histVars>>

\* Unlock; an empty bucket returns, otherwise the loops start
broadcastUnlock(c) ==
    /\ g[c].pc = "bunlock" /\ Alive(c)
    /\ IF LockOf(NodeOf(c), g[c].channel) \in held
       THEN /\ held' = held \ {LockOf(NodeOf(c), g[c].channel)}
            /\ g' = [g EXCEPT ![c].pc = IF g[c].snap = <<>> THEN "top" ELSE "bsend",
                              ![c].i = IF g[c].snap = <<>> THEN 0 ELSE 1,
                              ![c].j = IF g[c].snap = <<>> THEN 0 ELSE 1]
            /\ UNCHANGED crashed
       ELSE /\ crashed' = [crashed EXCEPT ![NodeOf(c)] = TRUE]
            /\ UNCHANGED <<held, g>>
    /\ UNCHANGED <<auxVars, redisVars, pubsub, clients, client_lock, numClients,
                   connVars, dirVars, cl, histVars>>

\* One turn of the inner loop of broadcastState: the payload marshalled in turn
\* i of the outer loop is offered to clientsToSend[j].
broadcastSend(c) ==
    /\ g[c].pc = "bsend" /\ Alive(c)
    /\ TrySend(NodeOf(c), g[c].snap[g[c].j], g[c].payload)
    /\ g' = [g EXCEPT ![c] =
               IF g[c].j < Len(g[c].snap) THEN [@ EXCEPT !.j = g[c].j + 1]
               ELSE IF g[c].i < Len(g[c].snap) THEN [@ EXCEPT !.i = g[c].i + 1, !.j = 1]
               ELSE [@ EXCEPT !.pc = "top", !.i = 0, !.j = 0, !.snap = <<>>,
                              !.channel = "", !.payload = redisNil]]
    /\ UNCHANGED <<auxVars, redisVars, pubsub, clients, client_lock, held, numClients,
                   conn, pc, val, msg, sendState, dirVars, cl, nFrames, writeHist, joinHist>>

\* ================================================================= Spec
RECURSIVE SumTo(_, _)
SumTo(f, n) == IF n = 0 THEN 0 ELSE f[n] + SumTo(f, n - 1)

\* frames read from all sockets so far
TotalFrames == SumTo(nFrames, MaxConns)

States == {PlaybackState(ts, 1) : ts \in 0..MaxTs}

\* the steps of a connection's handleWebSocket goroutine up to its read loop
ConnectSteps(c) ==
    \/ wsNewLock(c)
    \/ wsLock(c)
    \/ wsAppend(c)
    \/ wsUnlock(c)
    \/ wsInc(c)
    \/ subscribeToSessionUpdates(c)
    \/ wsInitGet(c)
    \/ wsInitSend(c)

\* the rest of a host's handleClientMessage, Redis answering without error
WriteSteps(c) ==
    \/ hostSetEX(c, TRUE)
    \/ publishStateUpdate(c, TRUE)

\* the deferred cleanupClient
CleanupSteps(c) ==
    \/ cleanupClose(c)
    \/ cleanupLock(c)
    \/ cleanupRemove(c)
    \/ cleanupUnlock(c)
    \/ cleanupDec(c)

\* the receiver goroutine of c's subscription
ReceiverSteps(c) ==
    \/ recvTop(c)
    \/ recvMessage(c)
    \/ broadcastLock(c)
    \/ broadcastSnapshot(c)
    \/ broadcastUnlock(c)
    \/ broadcastSend(c)

\* The write path of session s1 on node A: the director creates the session,
\* then up to nc browsers open a WebSocket with the host hint of their choice
\* (video_player.js connects after validate has answered for the session), and
\* up to nf stateUpdate frames arrive on the sockets; sockets fail at any time.
\* No receiver goroutine and no pump is scheduled: none of their steps writes a
\* variable that a step of the write path reads, except crashed and held, and
\* those can only stop or delay a handler.
WritePath(nc, nf) ==
    \/ \E now \in 0..MaxNow : createSession("s1", "t1", now, 0)
    \/ \E c \in 1..nc, h \in BOOLEAN :
          "s1" \in kvSession /\ handleWebSocket(c, "A", "s1", h)
    \/ \E c \in Conns, st \in States : TotalFrames < nf /\ recvStateUpdate(c, st)
    \/ \E c \in Conns : readError(c)
    \/ \E c \in Conns : ConnectSteps(c)
    \/ \E c \in Conns : WriteSteps(c)
    \/ \E c \in Conns : CleanupSteps(c)

\* one connection at a time
Next == WritePath(HConns, HFrames)
Spec == Init /\ [][Next]_vars

\* Concurrent host connections of one session on node A (two tabs of the host,
\* or WebSockets opened with the host hint), and a participant that joins; the
\* hosts' browsers send the stateUpdate frames; sockets do not fail.
NextRace ==
    \/ \E now \in 0..MaxNow : createSession("s1", "t1", now, 0)
    \/ \E c \in 1..RConns :
          "s1" \in kvSession /\ handleWebSocket(c, "A", "s1", c < RConns)
    \/ \E c \in Conns, st \in States :
          TotalFrames < RFrames /\ conn[c].isHost /\ recvStateUpdate(c, st)
    \/ \E c \in Conns : ConnectSteps(c)
    \/ \E c \in Conns : WriteSteps(c)
SpecRace == Init /\ [][NextRace]_vars

\* the write path with the browsers' validate calls: a browser asks the director
\* with no token, with the session's token or with another one, and opens its
\* WebSocket with the host hint of its choice
NextAuth ==
    \/ Next
    \/ registerWithMainServer("A")
    \/ \E c \in 1..HConns, tok \in Tokens \cup {NoToken} : validateSession(c, "s1", tok)
SpecAuth == Init /\ [][NextAuth]_vars

\* A host and the participants that join its session on node A, with the
\* receiver goroutines: connection 1 is the host's, the others are opened
\* without the host hint; only the host's browser sends stateUpdate frames
\* (video_player.js sends them when isHost), at most nf of them, each stamped
\* with Date.now() at a later instant than the one before.
JoinPath(nf) ==
    \/ createSession("s1", "t1", 0, 0)
    \/ \E c \in 1..JConns :
          "s1" \in kvSession /\ handleWebSocket(c, "A", "s1", c = 1)
    \/ \E st \in States :
          /\ TotalFrames < nf
          /\ st.Timestamp > sentMax["s1"]
          /\ recvStateUpdate(1, st)
    \/ \E c \in Conns : ConnectSteps(c)
    \/ \E c \in Conns : WriteSteps(c)
    \/ \E c \in Conns : ReceiverSteps(c)

\* joins while the pumps drain the queues
NextJoin ==
    \/ JoinPath(JFrames)
    \/ \E c \in Conns : writePump(c)
SpecJoin == Init /\ [][NextJoin]_vars

\* joins while a backlog of published states waits: the pumps are blocked in
\* WriteMessage on sockets whose browsers do not read
NextLate == JoinPath(LFrames)
SpecLate == Init /\ [][NextLate]_vars

\* Two sessions and two nodes: the host of s1 connects to node A, then viewers
\* connect to either node for either session.
NextFanout ==
    \/ createSession("s1", "t1", 0, 0)
    \/ createSession("s2", "t2", 0, 0)
    \/ \E c \in 1..FConns, n \in Nodes, k \in Sessions :
          /\ k \in kvSession
          /\ c = 1 => (n = "A" /\ k = "s1")
          /\ handleWebSocket(c, n, k, c = 1)
    \/ \E st \in States : TotalFrames < FFrames /\ recvStateUpdate(1, st)
    \/ \E c \in Conns : ConnectSteps(c)
    \/ \E c \in Conns : WriteSteps(c)
    \/ \E c \in Conns : ReceiverSteps(c)
    \/ \E c \in Conns : writePump(c)
SpecFanout == Init /\ [][NextFanout]_vars

\* Viewers that leave while states are delivered: the host of s1 is connection
\* 1 on node A, the others connect to node A for either session; the host's
\* browser sends up to DFrames frames with increasing stamps, the socket of any viewer but the host
\* can fail in its read loop, and the receiver goroutines broadcast what the
\* topics deliver.
NextLeave ==
    \/ createSession("s1", "t1", 0, 0)
    \/ createSession("s2", "t2", 0, 0)
    \/ \E c \in 1..DConns, k \in Sessions :
          /\ k \in kvSession
          /\ c = 1 => k = "s1"
          /\ handleWebSocket(c, "A", k, c = 1)
    \/ \E st \in States :
          /\ TotalFrames < DFrames
          /\ st.Timestamp > sentMax["s1"]
          /\ recvStateUpdate(1, st)
    \/ \E c \in Conns : ConnectSteps(c)
    \/ \E c \in Conns : WriteSteps(c)
    \/ \E c \in Conns : ReceiverSteps(c)
    \/ \E c \in 2..DConns : readError(c)
    \/ \E c \in Conns : CleanupSteps(c)
SpecLeave == Init /\ [][NextLeave]_vars

\* the descriptors that register requests carry: any status, a capacity and a
\* load from the given sets
Statuses == {"active", "inactive"}
Descriptors(caps, loads) ==
    {[ID |-> id, URL |-> serverURL(id), Capacity |-> cap, CurrentLoad |-> load,
      Status |-> st, LastPing |-> 0] :
        id \in Nodes, cap \in caps, load \in loads, st \in Statuses}

\* The director alone, at one instant: sessions are created, nodes register
\* with load 0 and any capacity and status, heartbeats report any load, and a
\* browser validates any session key with no token or with any token.
NextDirector ==
    \/ createSession("s1", "t1", 0, 0)
    \/ createSession("s2", "t2", 0, 0)
    \/ \E server \in Descriptors(0..MaxCap, {0}) : registerStreamingServer(server)
    \/ \E n \in Nodes, load \in 0..MaxLoad : handleHeartbeat(NodeDescriptor(n, load))
    \/ \E k \in Sessions, tok \in Tokens \cup {NoToken} : validateSession(1, k, tok)
SpecDirector == Init /\ [][NextDirector]_vars

\* The registry over time: nodes register with no capacity or with the
\* capacity of the node program, and with any status; their heartbeats report
\* no load or the highest one; seconds pass, the ticker of the sweep fires
\* every minute, and a browser validates session s1.
NextRegistry ==
    \/ createSession("s1", "t1", 0, 0)
    \/ \E server \in Descriptors({0, MaxCap}, {0}) : registerStreamingServer(server)
    \/ \E n \in Nodes, load \in {0, MaxLoad} : handleHeartbeat(NodeDescriptor(n, load))
    \/ cleanupInactiveServers
    \/ Tick
    \/ validateSession(1, "s1", NoToken)
SpecRegistry == Init /\ [][NextRegistry]_vars

\* The director with a keyspace whose writes can fail: each create request
\* runs with no failure or with its first, second or third SetEX failing;
\* nodes register and browsers validate as in NextDirector.
NextCreate ==
    \/ \E failAt \in 0..3 : createSession("s1", "t1", 0, failAt)
    \/ \E failAt \in 0..3 : createSession("s2", "t2", 0, failAt)
    \/ \E server \in Descriptors({MaxCap}, {0}) : registerStreamingServer(server)
    \/ \E k \in Sessions, tok \in Tokens \cup {NoToken} : validateSession(1, k, tok)

SpecCreate == Init /\ [][NextCreate]_vars

\* The write path of session s1 with the upload server: the session is
\* created at instant 0 and the host's browser posts the video of the session,
\* of any size, at any later time; the upload server's clock reads MaxNow
\* when a transcoding is over, the host's browser stamps its frames with any
\* of 0..MaxTs.  Sockets do not fail.
NextUpload ==
    \/ createSession("s1", "t1", 0, 0)
    \/ \E c \in 1..UConns, h \in BOOLEAN :
          "s1" \in kvSession /\ handleWebSocket(c, "A", "s1", h)
    \/ \E c \in Conns, st \in States :
          TotalFrames < UFrames /\ conn[c].isHost /\ recvStateUpdate(c, st)
    \/ \E c \in Conns : ConnectSteps(c)
    \/ \E c \in Conns : WriteSteps(c)
    \/ \E size \in 0..(MaxUpload + 1), transcoded \in BOOLEAN :
          handleVideoUpload("s1", size, transcoded, MaxNow)
SpecUpload == Init /\ [][NextUpload]_vars

\* The write path of session s1 while the keyspace's time passes and browsers
\* validate the session.
NextExpiry ==
    \/ WritePath(UConns, UFrames)
    \/ Elapse
    \/ registerWithMainServer("A")
    \/ validateSession(1, "s1", NoToken)
SpecExpiry == Init /\ [][NextExpiry]_vars

\* the writePump goroutine of a connection
PumpSteps(c) ==
    \/ writePump(c)
    \/ writePumpError(c)
    \/ writePumpClosed(c)

\* Viewers of session s1 on node A whose browsers send frames of the three
\* types, with the pumps: a WriteMessage can fail at any time, and so can a
\* ReadMessage.
NextPump ==
    \/ createSession("s1", "t1", 0, 0)
    \/ \E c \in 1..PConns, h \in BOOLEAN :
          "s1" \in kvSession /\ handleWebSocket(c, "A", "s1", h)
    \/ \E c \in Conns, st \in States :
          TotalFrames < PFrames /\ conn[c].isHost /\ recvStateUpdate(c, st)
    \/ \E c \in Conns : TotalFrames < PFrames /\ recvVideoMetadata(c)
    \/ \E c \in Conns : TotalFrames < PFrames /\ recvHeartbeat(c)
    \/ \E c \in Conns : metaSend(c)
    \/ \E c \in Conns : readError(c)
    \/ \E c \in Conns : ConnectSteps(c)
    \/ \E c \in Conns : WriteSteps(c)
    \/ \E c \in Conns : CleanupSteps(c)
    \/ \E c \in Conns : PumpSteps(c)
SpecPump == Init /\ [][NextPump]_vars

\* Viewers of a session whose creation may have failed at its third write:
\* the existence key and the host token are stored, the state key is not,
\* until a host's frame stores one.
NextMissing ==
    \/ \E failAt \in {0, 3} : createSession("s1", "t1", 0, failAt)
    \/ \E c \in 1..MConns, h \in BOOLEAN :
          "s1" \in kvSession /\ handleWebSocket(c, "A", "s1", h)
    \/ \E c \in Conns, st \in States :
          TotalFrames < MFrames /\ conn[c].isHost /\ recvStateUpdate(c, st)
    \/ \E c \in Conns : ConnectSteps(c)
    \/ \E c \in Conns : WriteSteps(c)
    \/ \E c \in Conns : CleanupSteps(c)
SpecMissing == Init /\ [][NextMissing]_vars

\* The write path with a keyspace whose calls can fail: the SetEX of a host
\* write and the Publish that follows each succeed or return an error.
NextFail ==
    \/ createSession("s1", "t1", 0, 0)
    \/ \E c \in 1..EConns, h \in BOOLEAN :
          "s1" \in kvSession /\ handleWebSocket(c, "A", "s1", h)
    \/ \E c \in Conns, st \in States :
          TotalFrames < EFrames /\ conn[c].isHost /\ recvStateUpdate(c, st)
    \/ \E c \in Conns : ConnectSteps(c)
    \/ \E c \in Conns, ok \in BOOLEAN : hostSetEX(c, ok)
    \/ \E c \in Conns, ok \in BOOLEAN : publishStateUpdate(c, ok)
SpecFail == Init /\ [][NextFail]_vars

\* A host and the participants of its session on node A with the receiver
\* goroutines, as in JoinPath, and a Publish that can fail.
NextLocal ==
    \/ JoinPath(JFrames)
    \/ \E c \in Conns : publishStateUpdate(c, FALSE)
SpecLocal == Init /\ [][NextLocal]_vars

\* main of node n has called registerWithMainServer: every node program is
\* started at instant 0 of the director's clock
Started(n) == clock > 0 \/ streamingServers[n] # NoServer

\* The nodes over time: each registers when it starts, then its heartbeat
\* ticker fires at any time (a tick can be late or lost, so that a sweep of
\* the director can find the entry stale), while node A serves one viewer.
NextRejoin ==
    \/ \E n \in Nodes : clock = 0 /\ registerWithMainServer(n)
    \/ \E n \in Nodes : Started(n) /\ sendHeartbeats(n)
    \/ (\A n \in Nodes : Started(n)) /\ Tick
    \/ cleanupInactiveServers
    \/ createSession("s1", "t1", 0, 0)
    \/ \E h \in BOOLEAN :
          /\ Started("A") /\ "s1" \in kvSession
          /\ handleWebSocket(1, "A", "s1", h)
    \/ readError(1)
    \/ ConnectSteps(1)
    \/ CleanupSteps(1)
SpecRejoin == Init /\ [][NextRejoin]_vars

\* no handler is between its upgrade and its read loop
Joined == \A c \in Conns : pc[c] \notin {"mklock", "lock", "append", "unlock", "inc",
                                         "subscribe", "initget", "initsend"}

\* A host and a participant of session s1 on node A whose browsers, once the
\* connects under way are over, send frames of every kind, well-formed or not;
\* the pumps are blocked in WriteMessage.
NextFrames ==
    \/ createSession("s1", "t1", 0, 0)
    \/ \E c \in 1..GConns :
          "s1" \in kvSession /\ handleWebSocket(c, "A", "s1", c = 1)
    \/ \E c \in Conns, st \in States :
          TotalFrames < GFrames /\ Joined /\ conn[c].isHost /\ recvStateUpdate(c, st)
    \/ \E c \in Conns, kind \in {"notJSON", "badState"} :
          TotalFrames < GFrames /\ Joined /\ recvMalformed(c, kind)
    \/ \E c \in Conns : TotalFrames < GFrames /\ Joined /\ recvHeartbeat(c)
    \/ \E c \in Conns : TotalFrames < GFrames /\ Joined /\ recvHeartbeatAck(c)
    \/ \E c \in Conns : TotalFrames < GFrames /\ Joined /\ recvVideoMetadata(c)
    \/ \E c \in Conns : metaSend(c)
    \/ \E c \in Conns : ConnectSteps(c)
    \/ \E c \in Conns : WriteSteps(c)
SpecFrames == Init /\ [][NextFrames]_vars

\* ================================================================ claims
\* the step reads a frame from the socket of connection c
ReadsFrame(c) == nFrames'[c] = nFrames[c] + 1

\* the step publishes on the topic of session k: a subscription of the
\* channel gets a message appended
Publishes(k) ==
    \E d \in Conns : /\ subs[d].channel = k
                     /\ subs'[d].channel = k
                     /\ Len(subs'[d].buf) > Len(subs[d].buf)

\* the step is the SetEX of the host handler of connection c
HandlerWrites(c) == pc[c] = "setex" /\ pc'[c] = "publish"

\* no host handler is between its comparison and the end of its publish
AllHandled == \A c \in Conns : pc[c] \notin {"setex", "publish"}

\* C1: every write of a host stateUpdate handler to a session's state key
\* carries a timestamp strictly greater than the one the key holds immediately
\* before the write, whatever the interleaving of the host connections.
C1_WriteStrictlyNewer ==
    [][\A c \in Conns :
          HandlerWrites(c)
          => kvState'[SessOf(c)].Timestamp > kvState[SessOf(c)].Timestamp]_vars

\* C2: once every host stateUpdate sent so far has been handled, and one of
\* them was newer than the initial state, the stored state carries the highest
\* timestamp sent.
C2_StoredIsMaximum ==
    \A k \in Sessions :
        (AllHandled /\ k \in kvSession /\ sentMax[k] > created[k].Timestamp)
        => kvState[k].Timestamp = sentMax[k]

\* C3: of two host stateUpdates with the same timestamp handled concurrently
\* only one is written: no handler writes a timestamp that the state key
\* already holds.
C3_SameTimestampOnce ==
    [][\A c \in Conns :
          HandlerWrites(c)
          => kvState[SessOf(c)].Timestamp # msg[c].Timestamp]_vars

\* C4: a host stateUpdate whose timestamp is less than or equal to the stored
\* state's timestamp leaves the session's state key unchanged and publishes
\* nothing: the handler is back at its read loop within the step that compares.
C4_StaleUpdateDropped ==
    [][\A c \in Conns :
          (/\ ReadsFrame(c)
           /\ conn[c].isHost
           /\ kvState[SessOf(c)] # redisNil
           /\ msg'[c].Timestamp <= kvState[SessOf(c)].Timestamp)
          => (/\ kvState' = kvState
              /\ ~Publishes(SessOf(c))
              /\ subs' = subs
              /\ pc'[c] = "read")]_vars

\* a host has handled a frame that was not newer than the stored state, after a
\* frame of the session had been accepted
C4_Witness ==
    \E c \in Conns :
        /\ conn[c].isHost /\ nFrames[c] > 0 /\ pc[c] = "read"
        /\ kvState[SessOf(c)] # redisNil
        /\ msg[c].Timestamp <= kvState[SessOf(c)].Timestamp
        /\ msg[c] # kvState[SessOf(c)]
        /\ kvState[SessOf(c)] # created[SessOf(c)]

\* C5: a stateUpdate frame read from a connection whose host flag is false
\* changes neither the state key nor the topic and leaves the handler at its
\* read loop; and every step that writes the state key of an existing session
\* or publishes on its topic is the step of a handler whose host flag is true.
C5_NonHostNeverWrites ==
    [][/\ \A c \in Conns :
            (ReadsFrame(c) /\ ~conn[c].isHost)
            => (kvState' = kvState /\ subs' = subs /\ pc'[c] = pc[c])
       /\ \A k \in Sessions :
            ((kvState[k] # redisNil /\ kvState'[k] # kvState[k]) \/ Publishes(k))
            => \E c \in Conns : /\ conn[c].isHost /\ SessOf(c) = k
                                /\ pc[c] \in {"setex", "publish"}
                                /\ pc'[c] # pc[c]]_vars

\* a participant's frame carried a timestamp newer than the stored state's
C5_Witness ==
    \E c \in Conns :
        /\ pc[c] = "read" /\ ~conn[c].isHost /\ nFrames[c] > 0
        /\ kvState[SessOf(c)] # redisNil
        /\ msg[c].Timestamp > kvState[SessOf(c)].Timestamp

\* C6: only a connection whose browser was answered isHost = true by validate
\* for the session writes the session's state key, whatever host hint the
\* WebSocket was opened with.
C6_WriteNeedsHostToken ==
    [][\A c \in Conns :
          HandlerWrites(c)
          => (cl[c].isHost /\ cl[c].sessionKey = SessOf(c))]_vars

\* the subscription on which the receiver goroutine of c blocks now or, when it
\* is not blocked, on which its next ReceiveMessage call will block
NextSub(c) == IF g[c].pc = "recv" THEN g[c].cur ELSE pubsub[NodeOf(c)]

\* C7: a node does not stop receiving a session's topic while it has viewers
\* of the session: as long as a connection of session k that has subscribed is
\* in the bucket of k on node n, some receiver goroutine of n is blocked, or
\* will block at its next turn, on a subscription of the topic of k.
C7_NodeKeepsReceiving ==
    \A c \in Conns :
        (/\ subs[c].channel # ""
         /\ \E i \in 1..Len(clients[NodeOf(c)][SessOf(c)]) :
                clients[NodeOf(c)][SessOf(c)][i] = c)
        => \E d \in Conns : /\ g[d].pc # "none"
                            /\ NodeOf(d) = NodeOf(c)
                            /\ subs[NextSub(d)].channel = SessOf(c)

\* C8: the first stateUpdate enqueued to a participant carries the highest
\* timestamp accepted before some moment t of its join; whichever moment
\* between the acceptance of its upgrade and that enqueue t is, the timestamp
\* is not lower than the highest one accepted before the upgrade.
C8_FirstIsLatestAtJoin ==
    \A c \in Conns :
        (pc[c] # "none" /\ ~conn[c].isHost /\ firstEnq[c] # redisNil)
        => firstEnq[c].Timestamp >= joinFloor[c]

\* C9: a participant whose upgrade was accepted after a host stateUpdate with
\* timestamp T had been written is sent, as its initial state, a state with
\* timestamp at least T.
C9_JoinerNotBehind ==
    \A c \in Conns :
        initSent[c] # redisNil => initSent[c].Timestamp >= joinFloor[c]

\* the host has stopped writing and everything published has been broadcast:
\* every handler is at its read loop, no message waits in a subscription, every
\* receiver goroutine is between two messages, and no enqueue found a queue full
Quiescent ==
    /\ \A c \in Conns : pc[c] \in {"none", "read"}
    /\ \A c \in Conns : subs[c].buf = <<>>
    /\ \A c \in Conns : g[c].pc \in {"none", "top", "recv"}
    /\ ~overflow

\* C10: at quiescence the last stateUpdate enqueued to every attached
\* participant carries the stored state of its session.
C10_ViewersConverge ==
    Quiescent
    => \A c \in Conns :
          (pc[c] = "read" /\ ~conn[c].isHost)
          => lastEnq[c] = kvState[SessOf(c)]

\* a registry entry that selection may return: active, with room left
Selectable(id) ==
    /\ streamingServers[id] # NoServer
    /\ streamingServers[id].Status = "active"
    /\ streamingServers[id].CurrentLoad < streamingServers[id].Capacity

\* C11: while a selectable node is registered, validate of a key that create
\* returned answers valid = true with isHost = false when no host token is
\* supplied, and valid = true with isHost = true when the token that create
\* returned with the key is supplied.
C11_ValidateAfterCreate ==
    \A k \in Sessions, order \in RangeOrders :
        (createResp[k] = 200 /\ \E id \in Nodes : Selectable(id))
        => /\ validateResponse(k, NoToken, order).status = 200
           /\ validateResponse(k, NoToken, order).valid
           /\ ~validateResponse(k, NoToken, order).isHost
           /\ validateResponse(k, kvHost[k], order).status = 200
           /\ validateResponse(k, kvHost[k], order).valid
           /\ validateResponse(k, kvHost[k], order).isHost

\* a browser was answered valid and isHost for the token of the session's create
C11_Witness ==
    \E c \in Conns :
        /\ req[c].sessionKey \in Sessions
        /\ createResp[req[c].sessionKey] = 200
        /\ req[c].hostToken = kvHost[req[c].sessionKey]
        /\ resp[c].valid /\ resp[c].isHost
        /\ cl[c] = [sessionKey |-> req[c].sessionKey, isHost |-> TRUE]

C13_ValidateFailures ==
    \A k \in Sessions, tok \in Tokens \cup {NoToken}, order \in RangeOrders :
        /\ k \notin kvSession
           => validateResponse(k, tok, order) =
                 [NoResp EXCEPT !.status = 200, !.error = "session_not_found"]
        /\ (k \in kvSession /\ ~\E id \in Nodes : Selectable(id))
           => validateResponse(k, tok, order) =
                 [NoResp EXCEPT !.status = 503,
                                !.error = "no_streaming_servers_available"]
        /\ validateResponse(k, tok, order).valid
           => /\ validateResponse(k, tok, order).server \in Registered
              /\ validateResponse(k, tok, order).streaming_url.host # ""

\* a browser was answered 503 for an existing session while a node was
\* registered whose load had reached its capacity
C13_Witness ==
    \E c \in Conns :
        /\ req[c].sessionKey \in kvSession
        /\ resp[c].status = 503
        /\ \E id \in Registered :
              /\ streamingServers[id].Status = "active"
              /\ streamingServers[id].Capacity > 0
              /\ streamingServers[id].CurrentLoad >= streamingServers[id].Capacity
        /\ ~\E id \in Nodes : Selectable(id)

\* CurrentLoad(a) / Capacity(a) <= CurrentLoad(b) / Capacity(b), for entries
\* with positive capacity
RatioLeq(a, b) ==
    streamingServers[a].CurrentLoad * streamingServers[b].Capacity
        <= streamingServers[b].CurrentLoad * streamingServers[a].Capacity

\* C14: node selection returns an active entry with currentLoad < capacity
\* whose ratio currentLoad / capacity is minimal among such entries, and it
\* returns no node exactly when there is no such entry.
C14_LeastLoaded ==
    \A order \in RangeOrders :
        /\ getLeastLoadedServer(order) # ""
           => /\ Selectable(getLeastLoadedServer(order))
              /\ \A id \in Nodes :
                    Selectable(id) => RatioLeq(getLeastLoadedServer(order), id)
        /\ getLeastLoadedServer(order) = "" <=> ~\E id \in Nodes : Selectable(id)

\* validate chose the less loaded of two selectable nodes with different ratios
C14_Witness ==
    \E c \in Conns, id \in Nodes :
        /\ resp[c].valid /\ resp[c].server \in Registered
        /\ resp[c].server # id
        /\ Selectable(id) /\ Selectable(resp[c].server)
        /\ ~RatioLeq(id, resp[c].server)

\* C15: after a register request the registry holds, under the descriptor's
\* ID, an entry with status active and last-ping equal to the time of the call,
\* whatever status and last-ping the descriptor carried.
C15_RegisterSetsActive ==
    [][\A server \in Descriptors({0, MaxCap}, {0}) :
          registerStreamingServer(server)
          => /\ streamingServers'[server.ID].ID = server.ID
             /\ streamingServers'[server.ID].Status = "active"
             /\ streamingServers'[server.ID].LastPing = clock]_vars

\* C16: a heartbeat for an ID that the registry does not hold leaves the
\* registry unchanged; a heartbeat for a known ID sets that entry's load to the
\* reported one, its last-ping to the time of the call and its status to
\* active, and changes neither its URL, its capacity nor any other entry.
C16_HeartbeatEffect ==
    [][\A n \in Nodes, load \in {0, MaxLoad} :
          handleHeartbeat(NodeDescriptor(n, load))
          => IF streamingServers[n] = NoServer
             THEN streamingServers' = streamingServers
             ELSE /\ streamingServers'[n] =
                        [streamingServers[n] EXCEPT !.CurrentLoad = load,
                                                    !.LastPing = clock,
                                                    !.Status = "active"]
                  /\ streamingServers'[n].URL = streamingServers[n].URL
                  /\ streamingServers'[n].Capacity = streamingServers[n].Capacity
                  /\ \A id \in Nodes \ {n} :
                        streamingServers'[id] = streamingServers[id]]_vars

\* a heartbeat of a node, which declares capacity MaxCap and is active, was
\* served for an entry registered with capacity 0 and status inactive, after
\* the time of the registration, while the other ID was unknown
C16_Witness ==
    \E id \in Nodes :
        /\ streamingServers[id] # NoServer
        /\ streamingServers[id].Capacity = 0
        /\ streamingServers[id].CurrentLoad = MaxLoad
        /\ streamingServers[id].Status = "active"
        /\ streamingServers[id].LastPing > 0
        /\ \A id2 \in Nodes \ {id} : streamingServers[id2] = NoServer

\* C17: validate never returns a node whose last register or heartbeat is
\* more than a minute old.
C17_SilentNodeNotSelected ==
    \A k \in kvSession, order \in RangeOrders :
        validateResponse(k, NoToken, order).valid
        => clock - streamingServers[validateResponse(k, NoToken, order).server].LastPing
              <= PingExpiry

\* C18: a create request that answered with a failure has left none of its
\* three keys (existence, host token, initial state) in the keyspace.
C18_FailedCreateLeavesNothing ==
    \A k \in Sessions :
        createResp[k] = 500
        => /\ k \notin kvSession
           /\ kvHost[k] = NoToken
           /\ kvState[k] = redisNil

\* the connections in the buckets of node n
RECURSIVE BucketTotal(_, _)
BucketTotal(n, ks) ==
    IF ks = {} THEN 0
    ELSE LET k == CHOOSE k \in ks : TRUE
         IN  Len(clients[n][k]) + BucketTotal(n, ks \ {k})

\* C19: whenever no goroutine of a node is inside a bucket critical section
\* (no client_lock mutex is held; the counter's own critical section is one
\* step), the node's load counter equals the number of connections in all its
\* session buckets.
C19_CounterEqualsBuckets ==
    held = {}
    => \A n \in Nodes : ~crashed[n] => numClients[n] = BucketTotal(n, Sessions)

\* d is in the bucket of session k on node n
InBucket(d, n, k) == \E i \in 1..Len(clients[n][k]) : clients[n][k][i] = d

\* C20: a step of broadcastState that enqueues a message to a connection finds
\* that connection, at that moment, in the bucket of the session the broadcast
\* is for, and the connection is one of that session.
C20_BroadcastOnlyToBucket ==
    [][\A c \in Conns :
          (broadcastSend(c) /\ send' # send)
          => /\ InBucket(g[c].snap[g[c].j], NodeOf(c), g[c].channel)
             /\ SessOf(g[c].snap[g[c].j]) = g[c].channel]_vars

\* a broadcast for s1 has enqueued to one connection and is about to offer its
\* message to a connection of its snapshot that cleanup has removed from the
\* bucket meanwhile
C20_Witness ==
    \E c \in Conns :
        /\ g[c].pc = "bsend"
        /\ g[c].j > 1
        /\ lastEnq[g[c].snap[1]] = g[c].payload
        /\ ~InBucket(g[c].snap[g[c].j], NodeOf(c), g[c].channel)
        /\ ~crashed[NodeOf(c)]

\* how many times message m is in queue q
Copies(q, m) == Len(SelectSeq(q, LAMBDA x : x = m))

\* C21: a step of broadcastState that offers its message to a connection whose
\* queue is full drops the message for that connection only: no queue changes,
\* the connection keeps its open queue and its place in the bucket, the node
\* goes on, and the broadcaster moves to its next turn; a step that offers it
\* to a connection with room enqueues it.  The broadcaster is never blocked in
\* its loop.
C21_FullQueueDropsForItOnly ==
    /\ [](\A c \in Conns :
             (g[c].pc = "bsend" /\ Alive(c)) => ENABLED broadcastSend(c))
    /\ [][\A c \in Conns :
             broadcastSend(c)
             => /\ (/\ sendState[g[c].snap[g[c].j]] = "open"
                    /\ Len(send[g[c].snap[g[c].j]]) = QueueCap)
                   => /\ send' = send
                      /\ sendState' = sendState
                      /\ clients' = clients
                      /\ crashed' = crashed
                      /\ g'[c] # g[c]
                /\ (/\ sendState[g[c].snap[g[c].j]] = "open"
                    /\ Len(send[g[c].snap[g[c].j]]) < QueueCap)
                   => send' = [send EXCEPT ![g[c].snap[g[c].j]] =
                                  Append(@, g[c].payload)]]_vars

\* a broadcast found the queue of d1 full and dropped its message for d1, and
\* d2, of the same bucket, got that message more often than d1, which is still
\* open and in the bucket
C21_Witness ==
    \E d1, d2 \in Conns :
        /\ overflow
        /\ d1 # d2
        /\ sendState[d1] = "open" /\ sendState[d2] = "open"
        /\ NodeOf(d1) = NodeOf(d2) /\ SessOf(d1) = SessOf(d2)
        /\ InBucket(d1, NodeOf(d1), SessOf(d1))
        /\ InBucket(d2, NodeOf(d2), SessOf(d2))
        /\ Len(send[d1]) = QueueCap
        /\ lastEnq[d2] # initSent[d2]
        /\ Copies(send[d2], lastEnq[d2]) > Copies(send[d1], lastEnq[d2])

\* C22: no write to a session's state key, by any of its writers, lowers the
\* timestamp of the stored state.
C22_StoredTimestampMonotone ==
    [][\A k \in Sessions :
          (kvState[k] # redisNil /\ kvState'[k] # redisNil)
          => kvState'[k].Timestamp >= kvState[k].Timestamp]_vars

\* C24: an upload whose body is larger than MAX_UPLOAD_SIZE is answered with
\* 400 and changes neither the keyspace nor the object store.
C24_OversizeUploadNoEffect ==
    [][\A k \in Sessions, size \in 0..(MaxUpload + 1), transcoded \in BOOLEAN :
          (size > MAX_UPLOAD_SIZE /\ handleVideoUpload(k, size, transcoded, MaxNow))
          => /\ uploadResp'[k] = 400
             /\ objects' = objects
             /\ kvState' = kvState
             /\ kvSession' = kvSession
             /\ kvHost' = kvHost
             /\ ttl' = ttl]_vars

\* an oversize upload for a created session was answered, and the session has
\* its state and nothing in the object store
C24_Witness ==
    /\ uploadResp["s1"] = 400
    /\ "s1" \in kvSession
    /\ kvState["s1"] = created["s1"]
    /\ "s1" \notin objects

\* C23: whenever a session's state key is present, its existence key and its
\* host token are present too, and validate answers valid=true for it when a
\* node can be selected.
C23_RecordsExpireTogether ==
    \A k \in Sessions :
        kvState[k] # redisNil
        => /\ k \in kvSession
           /\ kvHost[k] # NoToken
           /\ \A order \in RangeOrders :
                 getLeastLoadedServer(order) # ""
                 => validateResponse(k, NoToken, order).valid

\* C25: no step of broadcastState offers a message to a connection whose
\* queue cleanup has closed, whatever the interleaving of the disconnect with
\* the delivery, so no broadcast makes the node's process die.
C25_NoSendOnClosedQueue ==
    [][\A c \in Conns :
          broadcastSend(c)
          => /\ sendState[g[c].snap[g[c].j]] # "closed"
             /\ crashed' = crashed]_vars

\* the goroutines that are between a Lock and the Unlock that follows it in
\* handleWebSocket, cleanupClient or broadcastState, for the bucket of session k
\* on node n
InSection(n, k) ==
    {<<"handler", c>> : c \in {c \in Conns :
        /\ NodeOf(c) = n /\ SessOf(c) = k
        /\ pc[c] \in {"append", "unlock", "cremove", "cunlock", "cunlockret"}}}
    \cup
    {<<"receiver", c>> : c \in {c \in Conns :
        /\ NodeOf(c) = n /\ g[c].channel = k
        /\ g[c].pc \in {"bsnap", "bunlock"}}}

\* C26: for each session on a node, at most one goroutine at a time is inside
\* a section that mutates or snapshots the session's bucket.
C26_BucketMutualExclusion ==
    \A n \in Nodes, k \in Sessions :
        ~crashed[n] => Cardinality(InSection(n, k)) <= 1


\* C27: for every connection, every write to its socket is made by its pump
\* goroutine and by no other goroutine, the receive loop handling a client
\* message included.
C27_OnlyPumpWritesSocket ==
    \A c \in Conns : sockWriters[c] \subseteq {"writePump"}

\* C28: the enqueue of every message is non-blocking, the reply to a
\* videoMetadata request included: a handler that has a reply to enqueue can
\* always take its step, whatever the length of the queue and the state of
\* the pump.
C28_EnqueueNeverBlocks ==
    \A c \in Conns : pc[c] = "metasend" /\ Alive(c) => ENABLED metaSend(c)

\* the handler of c waits on a full channel that nobody drains any more
Stuck(c) ==
    /\ pc[c] = "metasend" /\ Alive(c)
    /\ Len(send[c]) = QueueCap
    /\ pump[c] \in {"stopped", "done"}

\* C29: an attached connection whose socket fails is cleaned up exactly once:
\* its handler is never left where it cannot reach the cleanup, a finished
\* cleanup has closed the queue and taken the connection out of its bucket,
\* and the load counter is the number of connections
\* between their increment and their decrement, never negative.
C29_ExactlyOneCleanup ==
    \A n \in Nodes : ~crashed[n] =>
        /\ \A c \in Conns : NodeOf(c) = n => ~Stuck(c)
        /\ \A c \in Conns : NodeOf(c) = n /\ pc[c] = "done" =>
              /\ sendState[c] = "closed"
              /\ ~InBucket(c, n, SessOf(c))
        /\ numClients[n] >= 0
        /\ numClients[n] = Cardinality({c \in Conns :
              /\ NodeOf(c) = n
              /\ pc[c] \notin {"none", "mklock", "lock", "append", "unlock", "inc",
                               "done"}})

\* C30: a participant whose join reads no state key gets no stateUpdate from
\* the join: the handler goes to its cleanup and its queue is left as it was.
C30_MissingStateSendsNothing ==
    [][\A c \in Conns :
          (pc[c] = "initget" /\ pc'[c] # "initget" /\ kvState[SessOf(c)] = redisNil)
          => /\ pc'[c] # "initsend"
             /\ send'[c] = send[c]
             /\ initSent'[c] = initSent[c]]_vars

C30_Witness ==
    \E c \in Conns :
        /\ conn[c] # NoConn /\ ~conn[c].isHost
        /\ pc[c] = "done"
        /\ kvState[SessOf(c)] = redisNil
        /\ initSent[c] = redisNil /\ firstEnq[c] = redisNil

\* C31: the handler of an attached connection starts the cleanup that takes
\* the connection out of its bucket only when a read of its socket has failed:
\* a missing state key at join time, a full queue or a frame never starts it.
C31_DetachOnlyOnReadError ==
    [][\A c \in Conns :
          (pc[c] # "close" /\ pc'[c] = "close") => pc[c] = "read"]_vars

\* C32: a Publish that fails after a host write leaves the state key as the
\* write left it, leaves the connection in its bucket with its queue open, and
\* the handler goes back to reading frames.
C32_PublishFailureKeepsWrite ==
    [][\A c \in Conns :
          (pc[c] = "publish" /\ pc'[c] # "publish" /\ err'[c].publish)
          => /\ kvState' = kvState
             /\ clients' = clients
             /\ sendState'[c] = sendState[c]
             /\ pc'[c] = "read"]_vars

\* a host whose write was stored and whose publish then failed is back at its
\* read loop, attached, and the state key holds what it wrote
C32_Witness ==
    \E c \in Conns :
        /\ pc[c] = "read" /\ conn[c].isHost
        /\ err[c].publish /\ ~err[c].setex
        /\ kvState[SessOf(c)] = msg[c]
        /\ InBucket(c, NodeOf(c), SessOf(c))
        /\ sendState[c] = "open"

\* C33: a state is published on a session topic only after the handler's
\* SetEX of that state has succeeded.
C33_PublishedWasWritten ==
    [][\A c \in Conns :
          (pc[c] = "publish" /\ subs' # subs) => ~err[c].setex]_vars

\* the subscriptions a node holds on the topic of session k, each with its
\* receiver goroutine
SubscriptionsOf(n, k) ==
    {c \in Conns : conn[c].node = n /\ subs[c].channel = k /\ g[c].pc # "none"}

\* C34: a node holds at most one subscription, with one receiver goroutine,
\* on the topic of a session, however many viewers of the session connect.
C34_OneSubscriptionPerTopic ==
    \A n \in Nodes, k \in Sessions : Cardinality(SubscriptionsOf(n, k)) <= 1

\* C35: a state published once on the topic of a session is enqueued at most
\* once by the node's broadcasts to a connection of the bucket; the queues are
\* not drained, the host's accepted frames carry distinct states, and a
\* joiner's initial state may add one more copy of the state it read.
C35_OneEnqueuePerPublish ==
    \A d \in Conns, st \in States :
        Copies(send[d], st) <= 1 + (IF initSent[d] = st THEN 1 ELSE 0)

\* C36: the viewers in the bucket of the node that accepted a host write get
\* the written state even when its publish failed: once the handlers are back
\* at their reads and no delivery is under way, the last state enqueued to
\* every attached participant of the session on that node is the state written.
C36_LocalBroadcastWithoutTopic ==
    Quiescent
    => \A c, d \in Conns :
          (/\ conn[c].isHost /\ pc[c] = "read"
           /\ err[c].publish /\ ~err[c].setex
           /\ kvState[SessOf(c)] = msg[c]
           /\ ~conn[d].isHost /\ pc[d] = "read"
           /\ NodeOf(d) = NodeOf(c) /\ SessOf(d) = SessOf(c)
           /\ InBucket(d, NodeOf(d), SessOf(d)))
          => lastEnq[d] = msg[c]

\* C37: a running node whose entry is missing from the registry is registered
\* again by a tick of its heartbeat: in every state where a started node has
\* no entry, its next heartbeat puts one in.
C37_HeartbeatReRegisters ==
    \A n \in Nodes :
        (clock > 0 /\ ~crashed[n] /\ streamingServers[n] = NoServer)
        => ENABLED (sendHeartbeats(n) /\ streamingServers'[n] # NoServer)

\* C38: the load of a node never exceeds its declared capacity: the counter
\* the node reports is between 0 and capacity, and so is the load of every
\* registry entry.
C38_LoadWithinCapacity ==
    /\ \A n \in Nodes :
          numClients[n] >= 0 /\ numClients[n] <= NodeDescriptor(n, 0).Capacity
    /\ \A id \in Nodes :
          streamingServers[id] # NoServer
          => /\ streamingServers[id].CurrentLoad >= 0
             /\ streamingServers[id].CurrentLoad <= streamingServers[id].Capacity

\* C39: a frame that is not valid JSON, or a stateUpdate whose state cannot be
\* parsed, is skipped: the stored state, the topic, the buckets and the queues'
\* states are unchanged and the handler is at its read for the next frame.
C39_MalformedFrameSkipped ==
    [][\A c \in Conns :
          (\E kind \in {"notJSON", "badState"} : recvMalformed(c, kind))
          => /\ kvState' = kvState
             /\ subs' = subs
             /\ clients' = clients
             /\ sendState' = sendState
             /\ pc'[c] = "read"]_vars

\* a connection whose last frame carried a state that does not parse is at
\* its read, in its bucket, with its queue open
C39_Witness ==
    \E c \in Conns :
        /\ msg[c] = Unparsable /\ nFrames[c] >= 1
        /\ pc[c] = "read" /\ sendState[c] = "open"
        /\ InBucket(c, NodeOf(c), SessOf(c))

\* C40: handling a heartbeat, a heartbeatAck or a videoMetadata frame changes
\* neither the stored state, the topic, a bucket nor the load counter, and the
\* only queue that changes is the sender's, by the reply to videoMetadata.
C40_LivenessFramesChangeNothing ==
    [][\A c \in Conns :
          (recvHeartbeat(c) \/ recvHeartbeatAck(c) \/ recvVideoMetadata(c) \/ metaSend(c))
          => /\ kvState' = kvState
             /\ subs' = subs
             /\ clients' = clients
             /\ numClients' = numClients
             /\ \A d \in Conns \ {c} : send'[d] = send[d]
             /\ metaSend(c) => send'[c] = Append(send[c], videoMetadata)
             /\ ~metaSend(c) => send'[c] = send[c]]_vars

\* a connection holds the reply to its videoMetadata request while another
\* connection of its bucket, at its read with an open queue, holds none
C40_Witness ==
    \E c, d \in Conns :
        /\ c # d
        /\ \E i \in 1..Len(send[c]) : send[c][i] = videoMetadata
        /\ InBucket(c, NodeOf(c), SessOf(c))
        /\ InBucket(d, NodeOf(c), SessOf(c))
        /\ pc[d] = "read" /\ sendState[d] = "open"
        /\ \A i \in 1..Len(send[d]) : send[d][i] # videoMetadata

====
